---- MODULE Spec2Model ----
(***************************************************************************)
(* The curve-shortening coordinator (SimulationServer.run_simulation), the *)
(* request loop of its workers (SimulationClient.start_client) and the     *)
(* Curve object the coordinator owns; one worker with its solver           *)
(* (find_geodesic_midpoint), get_metric and shutdown_metric; the accept    *)
(* loop of the evaluators (SimulationPotential.run_potential_server).      *)
(*                                                                         *)
(* A point of R^D is abstracted to one integer coordinate, measured in     *)
(* units of 1/Spacing of the distance between two neighbouring nodes of    *)
(* the initial straight line.  Time is a discrete clock.                   *)
(***************************************************************************)
EXTENDS Integers, Sequences, FiniteSets, TLC

\* ---- bounds of the model ---------------------------------------------
NumWorkers == 2
LastNode == 4
MaxTime == 2
MaxBend == 1
MaxLocal == 2
MaxSweeps == 2
MaxServers == 3
MaxPoint == 2
MaxEnergy == 4
MaxBatch == 2
MaxTrials == 1
MaxRequests == 2
MaxDimension == 3
MaxCoordinate == 1
MaxSearches == 2

\* ---- configuration ------------------------------------------------------
\* timeout of the constructor, in ticks of the model clock
TIMEOUT == 1
\* CONFIGURATION['tolerance'], in position units
tolerance == 1
\* distance between two neighbouring nodes of the initial straight line
Spacing == 3 * 3 * 3 * 3 * 3 * 3

\* small_number of run_potential_server, in units of itself
small_number == 1
\* CustomBFGS.py line 96: for i in xrange(30)
trial_limit == 30

Workers == 1..NumWorkers
Nodes == 0..LastNode
Interior == 1..(LastNode - 1)

\* the value next_movable_node returns when no node can be handed out
NoNode == 0 - 1

VARIABLES
    CURVE,            \* the coordinator's Curve object
    client_monitor,   \* worker id -> absent | None | [time, node]
    FINISHED,         \* SimulationServer.FINISHED
    client,           \* the connection the coordinator accepted last
    now,              \* time.time()
    pc,               \* where each worker is in start_client
    request,          \* the request of each worker that is on the wire
    server_response,  \* the reply each worker received last
    local_number_of_nodes, \* CONFIGURATION['local_number_of_nodes']
    resets,           \* how often set_node_movable was called (saturating)
    fresh,            \* per node: dispatches in this sweep, not counting those of a
                      \* node whose holder was found expired before its RESULT was handled
    updates,          \* per node: RESULTs written into it in this sweep (saturating)
    METRIC_SERVERS,   \* the evaluator addresses of the worker ID
    metric_parameters,\* CONFIGURATION['metric_parameters'][0], the energy E
    listener,         \* per evaluator: state of its Listener and accept loop
    potential_response, \* per evaluator: the local server_response of its loop
    last_points,      \* per evaluator: the 'points' of the last POINTS it handled
    outcome,          \* per evaluator: what the peer of its last connection saw
    fetches,          \* per evaluator: FETCHes answered since the last POINTS (saturating)
    solver,           \* where the worker ID is in find_geodesic_midpoint
    curve,            \* the curve of the get_metric call in progress
    metric,           \* the list get_metric is filling or has returned
    kill_log,         \* the addresses shutdown_metric tried, in order
    exchanges,        \* the requests the worker ID has made of the coordinator, in
                      \* order, each with what came back
    OUTPUT_FILENAME,  \* SimulationServer.OUTPUT_FILENAME
    files,            \* the files save_simulation has written
    returned,         \* what the last call of get_curve returned
    warnings,         \* the methods that have logged a warning instead of acting
    left_end_point,   \* the end points of the task whose parameterization is built
    right_end_point,
    basis_rotation_matrix, \* what orthonormal_tangent_basis returned for the task
    x0,               \* the initial guess of find_geodesic_midpoint
    first_curve,      \* what the first shifts_to_curve call of the task returned
    bfgs              \* the loops of find_geodesic_midpoint: where it is and its counts

serverVars == << CURVE, client_monitor, FINISHED, client, now, pc, request,
                 server_response, local_number_of_nodes, resets, fresh, updates >>

potentialVars == << METRIC_SERVERS, metric_parameters, listener, potential_response,
                    last_points, outcome, fetches >>

algebraVars == << left_end_point, right_end_point, basis_rotation_matrix, x0, first_curve,
                 bfgs >>

clientVars == << solver, curve, metric, kill_log, exchanges, algebraVars >>

outputVars == << OUTPUT_FILENAME, files, returned, warnings >>

vars == << serverVars, potentialVars, clientVars, outputVars >>

\* ---- helpers --------------------------------------------------------------
Abs(x) == IF x < 0 THEN 0 - x ELSE x

Min(S) == CHOOSE x \in S : \A y \in S : x <= y

RECURSIVE SumTo(_, _)
SumTo(f, n) == IF n = 0 THEN 0 ELSE f[n] + SumTo(f, n - 1)

\* ---- client_monitor entries -------------------------------------------
Unknown == [st |-> "UNKNOWN", t |-> 0, node |-> 0]
None == [st |-> "NONE", t |-> 0, node |-> 0]
Busy(t, n) == [st |-> "BUSY", t |-> t, node |-> n]

\* ---- messages -------------------------------------------------------------
NoMessage == [status_code |-> "NONE", node_number |-> 0, new_node_position |-> 0]
Hello == [status_code |-> "CLIENT_FIRST_CONTACT", node_number |-> 0, new_node_position |-> 0]
NoTask == [status_code |-> "CLIENT_HAS_NO_TASK", node_number |-> 0, new_node_position |-> 0]
MidpointData(n, p) ==
    [status_code |-> "CLIENT_HAS_MIDPOINT_DATA", node_number |-> n, new_node_position |-> p]

NoReply == [status_code |-> "NONE", node_number |-> 0, left_end_point |-> 0, right_end_point |-> 0]
Callback == [status_code |-> "SERVER_REQUEST_CALLBACK", node_number |-> 0,
             left_end_point |-> 0, right_end_point |-> 0]
\* mutant: the two end points of the TASK are exchanged
NewTask_Swapped(n, l, r) == [status_code |-> "SERVER_GIVES_NEW_TASK", node_number |-> n,
                             left_end_point |-> r, right_end_point |-> l]

NewTask(n, l, r) == [status_code |-> "SERVER_GIVES_NEW_TASK", node_number |-> n,
                     left_end_point |-> l, right_end_point |-> r]

\* ---- find_geodesic_midpoint of the worker ID -----------------------------
\* at: the statement the solver is at; address: the evaluator get_metric turns
\* to next; current_point: as in get_metric; calls: get_metric calls begun;
\* failed_at: the value of calls when a get_metric call returned None;
\* iterate: the curve of the iterate xk; exit: why the BFGS loop was left;
\* midpoint: the point the solver returned
Idle == [at |-> "idle", address |-> 0, current_point |-> 0, calls |-> 0, failed_at |-> 0,
         iterate |-> << >>, exit |-> "NONE", midpoint |-> NoNode]

\* ---- the Curve object ---------------------------------------------------
\* Curve(start_point, end_point, ...): the straight line, every interior node FREE
Line(i) == i * Spacing

NewCurve ==
    [points |-> [i \in Nodes |-> Line(i)],
     node_state |-> [i \in Interior |-> "FREE"],
     last_delta |-> [i \in Interior |-> 0]]

get_points(c) == c.points

movement(c) == SumTo(c.last_delta, LastNode - 1)

all_nodes_moved(c) == \A i \in Interior : c.node_state[i] = "MOVED"

set_node_movable(c) == [c EXCEPT !.node_state = [i \in Interior |-> "FREE"]]

set_node_position(c, i, p) ==
    [c EXCEPT !.points[i] = p,
              !.last_delta[i] = Abs(p - c.points[i]),
              !.node_state[i] = "MOVED"]

NeighbourLocked(c, i) ==
    \/ (i - 1 \in Interior /\ c.node_state[i - 1] = "LOCKED")
    \/ (i + 1 \in Interior /\ c.node_state[i + 1] = "LOCKED")

Dispatchable(c) ==
    {i \in Interior : c.node_state[i] = "FREE" /\ ~NeighbourLocked(c, i)}

\* the index next_movable_node returns
next_movable_node(c) == IF Dispatchable(c) = {} THEN NoNode ELSE Min(Dispatchable(c))

\* the Curve after the call of next_movable_node
lock_next_node(c) ==
    IF Dispatchable(c) = {} THEN c
    ELSE [c EXCEPT !.node_state[Min(Dispatchable(c))] = "LOCKED"]

\* ---- the coordinator's handler, step by step -----------------------------
\* mutant: the new position is written one node to the left
AfterResult_OffByOne(c, mon, w, msg) ==
    IF msg.status_code = "CLIENT_HAS_MIDPOINT_DATA" /\ mon[w] # None
    THEN [c EXCEPT !.points[msg.node_number - 1] = msg.new_node_position]
    ELSE c

\* mutant: the RESULT of a presumed-dead worker is written like any other
AfterResult_NoDeadCheck(c, mon, w, msg) ==
    IF msg.status_code = "CLIENT_HAS_MIDPOINT_DATA"
    THEN set_node_position(c, msg.node_number, msg.new_node_position)
    ELSE c

\* mutant: the new position is written into the right neighbour as well
AfterResult_MovesNeighbour(c, mon, w, msg) ==
    IF msg.status_code = "CLIENT_HAS_MIDPOINT_DATA" /\ mon[w] # None
    THEN [set_node_position(c, msg.node_number, msg.new_node_position)
            EXCEPT !.points[msg.node_number + 1] = msg.new_node_position]
    ELSE c

\* lines 129-135: the Curve after the RESULT branch
AfterResult(c, mon, w, msg) ==
    IF msg.status_code = "CLIENT_HAS_MIDPOINT_DATA" /\ mon[w] # None
    THEN set_node_position(c, msg.node_number, msg.new_node_position)
    ELSE c

\* lines 129-135: the number of RESULTs written into each node, after the
\* RESULT branch
AfterWrite(u, mon, w, msg) ==
    IF msg.status_code = "CLIENT_HAS_MIDPOINT_DATA" /\ mon[w] # None
    THEN [u EXCEPT ![msg.node_number] = IF @ < 2 THEN @ + 1 ELSE 2]
    ELSE u

\* lines 136-138: the monitor after the HELLO branch
AfterHello(mon, w, msg) ==
    IF msg.status_code = "CLIENT_FIRST_CONTACT" THEN [mon EXCEPT ![w] = None] ELSE mon

\* mutant: the movement is tested without waiting for the sweep to complete
Converged_NoSweepCheck(c) == movement(c) < tolerance

\* lines 144-147: the condition under which the accept loop is left
Converged(c) == all_nodes_moved(c) /\ movement(c) < tolerance

\* mutant: a complete sweep that did not converge is not reset
AfterSweepCheck_NoReset(c) == c

\* lines 144-149: the Curve after the sweep check, when the loop goes on
AfterSweepCheck(c) == IF all_nodes_moved(c) THEN set_node_movable(c) ELSE c

\* lines 155-158: the workers the scan finds BUSY for longer than TIMEOUT
Expired(mon) == {v \in Workers : mon[v].st = "BUSY" /\ now - mon[v].t > TIMEOUT}

\* lines 159-160: every expired entry is set to None
AfterScan(mon) == [v \in Workers |-> IF v \in Expired(mon) THEN None ELSE mon[v]]

\* a worker that has a TASK and whose RESULT the coordinator has not handled
\* before the request at hand
Working(v) ==
    \/ pc[v] = "task"
    \/ (pc[v] = "awaiting" /\ request[v].status_code = "CLIENT_HAS_MIDPOINT_DATA")

Bump(n) == IF n < 2 THEN n + 1 ELSE 2

\* mutant: a WAIT is sent before the loop is left
Replies_WaitOnBreak(converged, next_node_number) ==
    IF converged \/ next_node_number = NoNode THEN << "SERVER_REQUEST_CALLBACK" >>
    ELSE << "SERVER_GIVES_NEW_TASK" >>

\* mutant: no callback request is sent when no node can be handed out
Replies_NoCallback(converged, next_node_number) ==
    IF converged \/ next_node_number = NoNode THEN << >>
    ELSE << "SERVER_GIVES_NEW_TASK" >>

\* lines 144-147 and 169-180: what the coordinator sends on the accepted
\* connection: nothing when it breaks out of the loop, else one TASK or WAIT
Replies(converged, next_node_number) ==
    IF converged THEN << >>
    ELSE IF next_node_number # NoNode THEN << "SERVER_GIVES_NEW_TASK" >>
    ELSE << "SERVER_REQUEST_CALLBACK" >>

\* line 183: client.close() is reached unless the loop was left by the break
Closed(converged) == ~converged

\* ---- the coordinator ------------------------------------------------------
\* One pass of the accept loop (lines 115-183) for the request of worker w,
\* with the worker's receipt of the reply; on convergence the loop is left and
\* lines 185-189 run.  last is the expired worker the scan visits last.
Serve(w) ==
    /\ ~FINISHED
    /\ pc[w] = "awaiting"
    /\ LET msg == request[w]
           c1 == AfterResult(CURVE, client_monitor, w, msg)
           m1 == AfterHello(client_monitor, w, msg)
           dead == msg.status_code = "CLIENT_HAS_MIDPOINT_DATA" /\ client_monitor[w] = None
       IN  \* line 132 raises KeyError for a worker that never said HELLO; no
           \* worker of start_client sends a RESULT before its HELLO
           /\ (msg.status_code = "CLIENT_HAS_MIDPOINT_DATA" => client_monitor[w] # Unknown)
           /\ request' = [request EXCEPT ![w] = NoMessage]
           /\ IF Converged(c1)
              THEN /\ CURVE' = c1
                   /\ client_monitor' = m1
                   /\ FINISHED' = TRUE
                   /\ client' = [peer |-> w, presumed_dead |-> dead,
                                 sent |-> Replies(TRUE, NoNode), closed |-> Closed(TRUE)]
                   /\ updates' = AfterWrite(updates, client_monitor, w, msg)
                   /\ UNCHANGED << pc, server_response, resets, fresh >>
              ELSE LET c2 == AfterSweepCheck(c1)
                       swept == all_nodes_moved(c1)
                       exp == Expired(m1)
                       m2 == AfterScan(m1)
                   IN  \E last \in Workers :
                         /\ IF exp = {} THEN last = w ELSE last \in exp
                         /\ LET next_node_number ==
                                    IF exp = {} THEN next_movable_node(c2) ELSE m1[last].node
                                c3 == IF exp = {} THEN lock_next_node(c2) ELSE c2
                                excused == exp # {} /\ Working(last)
                                f1 == IF swept THEN [i \in Interior |-> 0] ELSE fresh
                            IN  /\ CURVE' = c3
                                /\ updates' = IF swept THEN [i \in Interior |-> 0]
                                              ELSE AfterWrite(updates, client_monitor, w, msg)
                                /\ FINISHED' = FALSE
                                /\ client' = [peer |-> w, presumed_dead |-> dead,
                                              sent |-> Replies(FALSE, next_node_number),
                                              closed |-> Closed(FALSE)]
                                /\ resets' = IF swept /\ resets < MaxSweeps THEN resets + 1 ELSE resets
                                /\ IF next_node_number # NoNode
                                   THEN /\ server_response' = [server_response EXCEPT ![w] =
                                              NewTask(next_node_number,
                                                      get_points(c3)[next_node_number - 1],
                                                      get_points(c3)[next_node_number + 1])]
                                        /\ client_monitor' = [m2 EXCEPT ![w] = Busy(now, next_node_number)]
                                        /\ pc' = [pc EXCEPT ![w] = "task"]
                                        /\ fresh' = IF excused THEN f1
                                                    ELSE [f1 EXCEPT ![next_node_number] = Bump(@)]
                                   ELSE /\ server_response' = [server_response EXCEPT ![w] = Callback]
                                        /\ client_monitor' = m2
                                        /\ pc' = [pc EXCEPT ![w] = "wait"]
                                        /\ fresh' = f1
    /\ UNCHANGED << now, local_number_of_nodes, potentialVars, clientVars, outputVars >>

\* ---- the workers ----------------------------------------------------------
\* lines 114-123: the first request of a worker is CLIENT_FIRST_CONTACT
FirstContact(w) ==
    /\ pc[w] = "start"
    /\ pc' = [pc EXCEPT ![w] = "awaiting"]
    /\ request' = [request EXCEPT ![w] = Hello]
    /\ UNCHANGED << CURVE, client_monitor, FINISHED, client, now, server_response,
                    local_number_of_nodes, resets, fresh, updates, potentialVars, clientVars, outputVars >>

\* the positions a solver run may return for a node under an arbitrary metric
Results(n) == {Line(n) + b : b \in 0..MaxBend}

\* lines 156-189 and 199-205: solve the task and send the RESULT
Compute(w) ==
    /\ pc[w] = "task"
    /\ \E p \in Results(server_response[w].node_number) :
          request' = [request EXCEPT ![w] =
                                 MidpointData(server_response[w].node_number, p)]
    /\ pc' = [pc EXCEPT ![w] = "awaiting"]
    /\ UNCHANGED << CURVE, client_monitor, FINISHED, client, now, server_response,
                    local_number_of_nodes, resets, fresh, updates, potentialVars, clientVars, outputVars >>

\* shifts_to_curve with all shifts zero (LinearAlgebra.py lines 86-94): point k
\* of the straight local curve from l to r with n inner points, l + k * tangent
\* with tangent = (r - l) / (n + 1), rounded down to the position unit
StraightPoint(l, r, n, k) == l + (k * (r - l)) \div (n + 1)

\* find_geodesic_midpoint under a constant metric: the gradient of the length
\* vanishes on the straight line, the BFGS loop is not entered and line 142
\* returns curve[(number_of_inner_points + 1) / 2] (integer division)
find_geodesic_midpoint(l, r, n) == StraightPoint(l, r, n, (n + 1) \div 2)

\* Compute when every evaluator returns one constant sample
ComputeConstant(w) ==
    /\ pc[w] = "task"
    /\ request' = [request EXCEPT ![w] =
                      MidpointData(server_response[w].node_number,
                                   find_geodesic_midpoint(server_response[w].left_end_point,
                                                          server_response[w].right_end_point,
                                                          local_number_of_nodes))]
    /\ pc' = [pc EXCEPT ![w] = "awaiting"]
    /\ UNCHANGED << CURVE, client_monitor, FINISHED, client, now, server_response,
                    local_number_of_nodes, resets, fresh, updates, potentialVars, clientVars, outputVars >>

\* lines 192-205: sleep DELAY seconds, then poll with CLIENT_HAS_NO_TASK
Poll(w) ==
    /\ pc[w] = "wait"
    /\ pc' = [pc EXCEPT ![w] = "awaiting"]
    /\ request' = [request EXCEPT ![w] = NoTask]
    /\ UNCHANGED << CURVE, client_monitor, FINISHED, client, now, server_response,
                    local_number_of_nodes, resets, fresh, updates, potentialVars, clientVars, outputVars >>

\* the clock advances
Tick ==
    /\ now < MaxTime
    /\ now' = now + 1
    /\ UNCHANGED << CURVE, client_monitor, FINISHED, client, pc, request,
                    server_response, local_number_of_nodes, resets, fresh, updates,
                    potentialVars, clientVars, outputVars >>

\* the clock advances without end.  Only the differences time.time() - t are
\* used (line 156), and any difference above TIMEOUT has the same effect, so
\* once now has reached MaxTime the time stamps are moved back instead, not
\* below the oldest one that still differs in effect
Elapse ==
    /\ IF now < MaxTime
       THEN now' = now + 1 /\ UNCHANGED client_monitor
       ELSE /\ UNCHANGED now
            /\ client_monitor' =
                 [w \in Workers |->
                    IF client_monitor[w].st = "BUSY" /\ client_monitor[w].t > MaxTime - TIMEOUT - 1
                    THEN Busy(client_monitor[w].t - 1, client_monitor[w].node)
                    ELSE client_monitor[w]]
    /\ UNCHANGED << CURVE, FINISHED, client, pc, request, server_response,
                    local_number_of_nodes, resets, fresh, updates,
                    potentialVars, clientVars, outputVars >>

\* ======================================================================
\* The evaluator pool of one worker
\* ======================================================================
\* the addresses a METRIC_SERVERS list can hold, and the list of the worker
Addresses == 1..MaxServers
Pool == 1..METRIC_SERVERS

\* a configuration vector is abstracted to one integer
Points == 0..MaxPoint

Max2(a, b) == IF a >= b THEN a ELSE b

\* math.sqrt on the non-negative integers, rounded down; a negative argument
\* raises ValueError (see Evaluate)
Sqrt(x) == IF x < 0 THEN 0 ELSE CHOOSE r \in 0..x : r * r <= x /\ x < (r + 1) * (r + 1)

\* the EMT calculator: potential energy and forces of a configuration
get_potential_energy(p) == p * p
get_forces(p) == 0 - 2 * p

SqrtArgument_NoFloor(E, p) == E - get_potential_energy(p)

\* lines 120-121: max([metric_parameters[0] - potential energy, small_number])
SqrtArgument(E, p) == Max2(E - get_potential_energy(p), small_number)

\* lines 120-122: the sample of one point, [sqrt(...), forces]
Sample(E, p) == << Sqrt(SqrtArgument(E, p)), get_forces(p) >>

\* line 120: math.sqrt raises ValueError on a negative argument
Raises(E, points) == \E j \in 1..Len(points) : SqrtArgument(E, points[j][1]) < 0

Evaluate_OwnIndex(E, points) == [j \in 1..Len(points) |-> << Sample(E, points[j][1]), j - 1 >>]

\* lines 105 and 118-122: values starts empty and gets one [sample, point[1]]
\* per point of the request, in the order of the request
Evaluate(E, points) ==
    [j \in 1..Len(points) |-> << Sample(E, points[j][1]), points[j][2] >>]

\* the local variable server_response of the accept loop
Unbound == [status_code |-> "UNBOUND", values |-> << >>]
ProvidesValues(values) == [status_code |-> "SERVER_PROVIDES_VALUES", values |-> values]

\* what the peer of a connection to an evaluator observes: the status_code it
\* sent and how the connection ended
NoConnection == [status_code |-> "NONE", kind |-> "NONE", values |-> << >>]
Unanswered(code) == [status_code |-> code, kind |-> "CLOSED", values |-> << >>]
Received(response) ==
    [status_code |-> "CLIENT_ASKS_FOR_VALUES", kind |-> "VALUES", values |-> response.values]
SocketError(code) == [status_code |-> code, kind |-> "socket.error", values |-> << >>]
EndOfFile(code) == [status_code |-> code, kind |-> "EOFError", values |-> << >>]

StatusCodes == {"CLIENT_PROVIDES_POINT", "CLIENT_ASKS_FOR_VALUES", "KILL"}

\* lines 110-125: CLIENT_PROVIDES_POINT
HandlePoints(e, points) ==
    /\ last_points' = [last_points EXCEPT ![e] = points]
    /\ fetches' = [fetches EXCEPT ![e] = 0]
    /\ outcome' = [outcome EXCEPT ![e] = Unanswered("CLIENT_PROVIDES_POINT")]
    /\ IF Raises(metric_parameters, points)
       THEN /\ listener' = [listener EXCEPT ![e] = "ValueError"]
            /\ UNCHANGED potential_response
       ELSE /\ potential_response' = [potential_response EXCEPT ![e] =
                                         ProvidesValues(Evaluate(metric_parameters, points))]
            /\ UNCHANGED listener

\* lines 127-132: CLIENT_ASKS_FOR_VALUES sends server_response, which is not
\* assigned before the first CLIENT_PROVIDES_POINT (UnboundLocalError)
HandleFetch(e) ==
    /\ IF potential_response[e] = Unbound
       THEN /\ listener' = [listener EXCEPT ![e] = "UnboundLocalError"]
            /\ outcome' = [outcome EXCEPT ![e] = EndOfFile("CLIENT_ASKS_FOR_VALUES")]
            /\ UNCHANGED fetches
       ELSE /\ outcome' = [outcome EXCEPT ![e] = Received(potential_response[e])]
            /\ fetches' = [fetches EXCEPT ![e] = IF @ < 2 THEN @ + 1 ELSE @]
            /\ UNCHANGED listener
    /\ UNCHANGED << potential_response, last_points >>

ListenerAfterKill_StillListening == "LISTENING"

\* lines 134-142: KILL leaves the loop, server.close()
ListenerAfterKill == "CLOSED"

HandleKill(e) ==
    /\ listener' = [listener EXCEPT ![e] = ListenerAfterKill]
    /\ outcome' = [outcome EXCEPT ![e] = Unanswered("KILL")]
    /\ UNCHANGED << potential_response, last_points, fetches >>

\* a connection to an address nobody listens on
Refused(e, code) ==
    /\ outcome' = [outcome EXCEPT ![e] = SocketError(code)]
    /\ UNCHANGED << listener, potential_response, last_points, fetches >>

\* the 'points' lists a peer may send: [point, original index] pairs
RECURSIVE Batches(_)
Batches(n) ==
    IF n = 0 THEN { << >> }
    ELSE Batches(n - 1) \cup
         { Append(b, << p, i >>) : b \in { c \in Batches(n - 1) : Len(c) = n - 1 },
                                   p \in Points, i \in 0..(MaxLocal + 1) }

\* one pass of the accept loop for a request of an arbitrary peer
PointsRequest(e) ==
    /\ listener[e] = "LISTENING"
    /\ \E points \in Batches(MaxBatch) : HandlePoints(e, points)
    /\ UNCHANGED << serverVars, METRIC_SERVERS, metric_parameters, clientVars, outputVars >>

FetchRequest(e) ==
    /\ listener[e] = "LISTENING"
    /\ HandleFetch(e)
    /\ UNCHANGED << serverVars, METRIC_SERVERS, metric_parameters, clientVars, outputVars >>

KillRequest(e) ==
    /\ listener[e] = "LISTENING"
    /\ HandleKill(e)
    /\ UNCHANGED << serverVars, METRIC_SERVERS, metric_parameters, clientVars, outputVars >>

RefusedRequest(e) ==
    /\ listener[e] # "LISTENING"
    /\ \E code \in StatusCodes : Refused(e, code)
    /\ UNCHANGED << serverVars, METRIC_SERVERS, metric_parameters, clientVars, outputVars >>

\* the pool before any request
InitPotential ==
    /\ listener = [e \in Addresses |-> "LISTENING"]
    /\ potential_response = [e \in Addresses |-> Unbound]
    /\ last_points = [e \in Addresses |-> << >>]
    /\ outcome = [e \in Addresses |-> NoConnection]
    /\ fetches = [e \in Addresses |-> 0]

\* find_geodesic_midpoint and the requests of the worker ID before start_client
InitSolver ==
    /\ solver = Idle
    /\ curve = << >>
    /\ metric = << >>
    /\ kill_log = << >>
    /\ exchanges = << >>

\* a matrix or a list of points that no call has produced yet
NotComputed == [status |-> "not computed", rows |-> 0, columns |-> << >>]
NoPoints == [status |-> "not computed", points |-> << >>]

\* find_geodesic_midpoint before it is called.  at: the statement it is at;
\* small_at_start: the first gradient was within gtol; searches: passes of
\* the while loop begun; i: trials made in the pass at hand; trials: trials
\* made in all; requests: get_metric calls made; exit: why the while loop ended
NotEntered == [at |-> "start", small_at_start |-> FALSE, searches |-> 0, i |-> 0,
               trials |-> 0, requests |-> 0, exit |-> "NONE"]

\* the worker ID before start_client: no task, no parameterization
InitClient ==
    /\ InitSolver
    /\ left_end_point = << >>
    /\ right_end_point = << >>
    /\ basis_rotation_matrix = NotComputed
    /\ x0 = << >>
    /\ first_curve = NoPoints
    /\ bfgs = NotEntered

\* the specifications of the coordinator leave the pool and the solver alone
InitIdle ==
    /\ METRIC_SERVERS = 1
    /\ metric_parameters = 0
    /\ InitPotential
    /\ InitClient

\* ---- the CLIENT_PROVIDES_POINT branch, statement by statement -------------
\* mutant: the connection is closed after the values are computed
ConnectionAtCompute_Open == "OPEN"

\* line 115: client.close() comes before the loop that computes the values
ConnectionAtCompute == "CLOSED"

\* lines 99-115: the request is received, values is reset, and the branch is
\* entered; the points of the request are kept in client_response
ReceivePoints(e) ==
    /\ listener[e] = "LISTENING"
    /\ \E points \in Batches(MaxBatch) :
          last_points' = [last_points EXCEPT ![e] = points]
    /\ listener' = [listener EXCEPT ![e] = "COMPUTING"]
    /\ outcome' = [outcome EXCEPT ![e] =
                      [Unanswered("CLIENT_PROVIDES_POINT") EXCEPT !.kind = ConnectionAtCompute]]
    /\ fetches' = [fetches EXCEPT ![e] = 0]
    /\ UNCHANGED potential_response
    /\ UNCHANGED << serverVars, METRIC_SERVERS, metric_parameters, clientVars, outputVars >>

\* lines 117-125: the values are computed and bound to server_response; the
\* loop then returns to server.accept()
ComputeValues(e) ==
    /\ listener[e] = "COMPUTING"
    /\ IF Raises(metric_parameters, last_points[e])
       THEN /\ listener' = [listener EXCEPT ![e] = "ValueError"]
            /\ UNCHANGED potential_response
       ELSE /\ listener' = [listener EXCEPT ![e] = "LISTENING"]
            /\ potential_response' = [potential_response EXCEPT ![e] =
                    ProvidesValues(Evaluate(metric_parameters, last_points[e]))]
    /\ outcome' = [outcome EXCEPT ![e] = Unanswered("CLIENT_PROVIDES_POINT")]
    /\ UNCHANGED << last_points, fetches >>
    /\ UNCHANGED << serverVars, METRIC_SERVERS, metric_parameters, clientVars, outputVars >>

\* ---- messages of unknown kind ---------------------------------------------
\* a request whose status_code is none of the comm_code values
Invalid == [status_code |-> "UNKNOWN", node_number |-> 0, new_node_position |-> 0]

\* a peer that uses the client_name w sends a request of unknown kind to the
\* coordinator, instead of its CLIENT_FIRST_CONTACT or of a CLIENT_HAS_NO_TASK
SendInvalid(w) ==
    /\ pc[w] \in {"start", "wait"}
    /\ pc' = [pc EXCEPT ![w] = "awaiting"]
    /\ request' = [request EXCEPT ![w] = Invalid]
    /\ UNCHANGED << CURVE, client_monitor, FINISHED, client, now, server_response,
                    local_number_of_nodes, resets, fresh, updates, potentialVars, clientVars, outputVars >>

\* what the peer of an evaluator observes when its request is not answered
\* and the connection is left to the garbage collector
Ignored == [status_code |-> "UNKNOWN", kind |-> "IGNORED", values |-> << >>]

\* SimulationPotential.py lines 105-138: a status_code that matches none of
\* the three branches; only the local list values is reset
InvalidRequest(e) ==
    /\ listener[e] = "LISTENING"
    /\ outcome' = [outcome EXCEPT ![e] = Ignored]
    /\ UNCHANGED << listener, potential_response, last_points, fetches >>
    /\ UNCHANGED << serverVars, METRIC_SERVERS, metric_parameters, clientVars, outputVars >>

\* ---- the output methods of the coordinator ------------------------------
\* the output_filename of the constructor and the names set_output_file is given
output_filename == "output"
FileNames == {output_filename, "renamed"}

\* get_curve has not been called; the None it returns
NotCalled == << "not called" >>
NoCurve == << "None" >>

\* lines 199 and 203: the pickle of CURVE and the animation made from it
Written(name, c) == {[file |-> << name, ext >>, points |-> get_points(c)] : ext \in {".pkl", ".xyz"}}

save_simulation_Unguarded ==
    /\ files' = files \cup Written(OUTPUT_FILENAME, CURVE)
    /\ UNCHANGED << serverVars, potentialVars, clientVars, OUTPUT_FILENAME, returned, warnings >>

\* lines 191-205
save_simulation ==
    /\ IF FINISHED
       THEN files' = files \cup Written(OUTPUT_FILENAME, CURVE) /\ UNCHANGED warnings
       ELSE warnings' = warnings \cup {"save_simulation"} /\ UNCHANGED files
    /\ UNCHANGED << serverVars, potentialVars, clientVars, OUTPUT_FILENAME, returned >>

\* lines 207-214
set_output_file(name) ==
    /\ IF FINISHED
       THEN OUTPUT_FILENAME' = name /\ UNCHANGED warnings
       ELSE warnings' = warnings \cup {"set_output_file"} /\ UNCHANGED OUTPUT_FILENAME
    /\ UNCHANGED << serverVars, potentialVars, clientVars, files, returned >>

\* lines 216-224
get_curve ==
    /\ IF FINISHED
       THEN returned' = CURVE /\ UNCHANGED warnings
       ELSE returned' = NoCurve /\ warnings' = warnings \cup {"get_curve"}
    /\ UNCHANGED << serverVars, potentialVars, clientVars, OUTPUT_FILENAME, files >>

\* ---- the specification ----------------------------------------------------
InitServer ==
    /\ CURVE = NewCurve
    /\ client_monitor = [w \in Workers |-> Unknown]
    /\ FINISHED = FALSE
    /\ client = [peer |-> 0, presumed_dead |-> FALSE,
                 sent |-> << >>, closed |-> FALSE]
    /\ now = 0
    /\ pc = [w \in Workers |-> "start"]
    /\ request = [w \in Workers |-> NoMessage]
    /\ server_response = [w \in Workers |-> NoReply]
    /\ resets = 0
    /\ fresh = [i \in Interior |-> 0]
    /\ updates = [i \in Interior |-> 0]
    /\ OUTPUT_FILENAME = output_filename
    /\ files = {}
    /\ returned = NotCalled
    /\ warnings = {}

\* an arbitrary metric: the solver's result does not depend on the local curve
Init == InitServer /\ local_number_of_nodes = 1 /\ InitIdle

Next ==
    \/ \E w \in Workers : Serve(w)
    \/ \E w \in Workers : FirstContact(w)
    \/ \E w \in Workers : Compute(w)
    \/ \E w \in Workers : Poll(w)
    \/ Tick

Spec == Init /\ [][Next]_vars

\* The constant metric: every worker answers within TIMEOUT (the clock stands
\* still), the configuration file chooses the number of local nodes.
InitConstant == InitServer /\ local_number_of_nodes \in 1..MaxLocal /\ InitIdle

NextConstant ==
    \/ \E w \in Workers : Serve(w)
    \/ \E w \in Workers : FirstContact(w)
    \/ \E w \in Workers : ComputeConstant(w)
    \/ \E w \in Workers : Poll(w)

SpecConstant == InitConstant /\ [][NextConstant]_vars

\* The run under the constant metric with a clock that never stops: every
\* worker returns a RESULT for each TASK and polls again after each WAIT,
\* after any time, and the coordinator handles every request that reaches it.
\* With one local node the solver returns the middle of its end points.
InitProgress == InitServer /\ local_number_of_nodes = 1 /\ InitIdle

NextProgress ==
    \/ \E w \in Workers : FirstContact(w)
    \/ \E w \in Workers : Serve(w)
    \/ \E w \in Workers : ComputeConstant(w)
    \/ \E w \in Workers : Poll(w)
    \/ Elapse

SpecProgress ==
    /\ InitProgress
    /\ [][NextProgress]_vars
    /\ \A w \in Workers :
          /\ WF_vars(FirstContact(w))
          /\ WF_vars(Serve(w))
          /\ WF_vars(ComputeConstant(w))
          /\ WF_vars(Poll(w))
    /\ WF_vars(Elapse)

\* The run under the constant metric with peers that may send a request of
\* unknown kind, to the coordinator or to an evaluator.
NextInvalid ==
    \/ NextConstant
    \/ \E w \in Workers : SendInvalid(w)
    \/ \E e \in Pool : InvalidRequest(e)

SpecInvalid == InitConstant /\ [][NextInvalid]_vars

\* The run under the constant metric, with a host program that calls the
\* output methods of the SimulationServer object at any time.
NextOutput ==
    \/ NextConstant
    \/ save_simulation
    \/ \E name \in FileNames : set_output_file(name)
    \/ get_curve

SpecOutput == InitConstant /\ [][NextOutput]_vars


\* one evaluator serving arbitrary peers
InitEvaluator ==
    /\ InitServer
    /\ local_number_of_nodes = 1
    /\ METRIC_SERVERS = 1
    /\ metric_parameters \in 0..MaxEnergy
    /\ InitPotential
    /\ InitClient

NextEvaluator ==
    \/ \E e \in Pool : PointsRequest(e)
    \/ \E e \in Pool : FetchRequest(e)
    \/ \E e \in Pool : KillRequest(e)
    \/ \E e \in Pool : RefusedRequest(e)

SpecEvaluator == InitEvaluator /\ [][NextEvaluator]_vars

\* The same evaluator with the CLIENT_PROVIDES_POINT branch in two steps.  A
\* connection made while the values are computed waits for the next accept.
NextPotential ==
    \/ \E e \in Pool : ReceivePoints(e)
    \/ \E e \in Pool : ComputeValues(e)
    \/ \E e \in Pool : FetchRequest(e)
    \/ \E e \in Pool : KillRequest(e)
    \/ \E e \in Pool : listener[e] # "COMPUTING" /\ RefusedRequest(e)

SpecPotential == InitEvaluator /\ [][NextPotential]_vars

\* ======================================================================
\* The worker ID with its pool: get_metric, shutdown_metric, the solver
\* ======================================================================
\* SimulationClient.ID of the worker whose pool is modelled
ID == Min(Workers)

\* what the worker and its pool never write
fixedVars == << CURVE, client_monitor, FINISHED, client, now, local_number_of_nodes,
                resets, fresh, updates, METRIC_SERVERS, metric_parameters, outputVars,
                algebraVars >>

\* line 24: the entries of metric before a value is stored, []
Placeholder == << >>

\* line 30: int(math.floor((number_of_inner_points + 2) / number_of_metric_servers))
tasks_per_server(n, K) == (n + 2) \div K

\* line 33
remainder_tasks(n, K) == n + 2 - tasks_per_server(n, K) * K

extra_jobs_None(address, remainder) == 0

\* lines 39 and 45-46, address counting from 0
extra_jobs(address, remainder) == IF address >= remainder THEN 0 ELSE 1

\* lines 53-57: how many points the evaluator at address e (from 1) is sent
ShardSize(e, n, K) ==
    tasks_per_server(n, K) + extra_jobs(e - 1, remainder_tasks(n, K))

\* lines 49-54: [curve[i], i] for i in xrange(current_point, current_point + size)
PointsFor(c, current_point, size) ==
    [j \in 1..size |-> << c[current_point + j - 1], current_point + j - 1 >>]

Reassemble_ByPosition(m, values) ==
    [i \in DOMAIN m |-> IF i + 1 \in 1..Len(values) THEN values[i + 1][1] ELSE m[i]]

\* lines 96-97: metric[value[1]] = value[0] for each value, in order
Reassemble(m, values) ==
    [i \in DOMAIN m |->
        LET J == {j \in 1..Len(values) : values[j][2] = i}
        IN  IF J = {} THEN m[i] ELSE values[CHOOSE j \in J : \A k \in J : k <= j][1]]

\* the None of Python, as the value of get_metric
NoMetric == << "None" >>

get_metric_returns_Partial(reached, m) == m

\* MetricValues.py lines 72-78, 103-109 and 112: what a get_metric call
\* returns when it ends at an address: None if the address could not be
\* reached, the list metric after the last address
get_metric_returns(reached, m) == IF reached THEN m ELSE NoMetric

AfterGetMetric_Ignore(failed, s) ==
    [s EXCEPT !.at = "linesearch", !.failed_at = IF failed THEN s.calls ELSE @]

\* CustomBFGS.py lines 64-65 and 110-111: return None when get_metric did
AfterGetMetric(failed, s) ==
    IF failed THEN [s EXCEPT !.at = "None", !.failed_at = s.calls]
    ELSE [s EXCEPT !.at = "linesearch"]

ClientExit_NoShutdown(cause) == "stopped"

\* SimulationClient.py: how start_client ends.  Lines 140-146 and 219-228 call
\* shutdown_metric when the SimulationServer cannot be reached; lines 176-181
\* leave the loop when find_geodesic_midpoint returned None.
ClientExit(cause) ==
    IF cause = "SimulationServer" THEN "shutdown_metric" ELSE "stopped"

\* where the worker goes when a get_metric call ended in solver state s
AfterSolver(s) ==
    [pc EXCEPT ![ID] = IF s.at = "None" THEN ClientExit("SimulationPotential") ELSE @]

ResultFor_FirstNode(reply, p) == MidpointData(Min(Interior), p)

\* lines 185-189: the RESULT carries the node_number of the TASK
ResultFor(reply, p) == MidpointData(reply.node_number, p)

\* the replies of a coordinator that does not leave its loop (Replies)
Tasks == {NewTask(n, Line(n - 1), Line(n + 1)) : n \in Interior}

\* an entry of exchanges: the status_code and node_number of the request and
\* what came back
Exchange(msg, reply) ==
    [status_code |-> msg.status_code, node_number |-> msg.node_number, reply |-> reply]

\* what came back instead of a reply
Failure(kind) == [status_code |-> kind, node_number |-> 0,
                  left_end_point |-> 0, right_end_point |-> 0]

\* lines 120-137 and 202-216: the coordinator answers the request; a TASK
\* enters find_geodesic_midpoint (line 163)
Answer ==
    /\ pc[ID] = "awaiting"
    /\ Len(exchanges) < MaxRequests
    /\ \E reply \in Tasks \cup {Callback} :
          /\ server_response' = [server_response EXCEPT ![ID] = reply]
          /\ exchanges' = Append(exchanges, Exchange(request[ID], reply))
          /\ pc' = [pc EXCEPT ![ID] =
                       IF reply.status_code = "SERVER_GIVES_NEW_TASK" THEN "task" ELSE "wait"]
          /\ solver' = IF reply.status_code = "SERVER_GIVES_NEW_TASK"
                       THEN [Idle EXCEPT !.at = "get_metric"] ELSE Idle
    /\ request' = [request EXCEPT ![ID] = NoMessage]
    /\ UNCHANGED << fixedVars, listener, potential_response, last_points, outcome,
                    fetches, curve, metric, kill_log >>

\* lines 140-146 and 219-228: the coordinator cannot be reached (socket.error)
\* or has left its loop without a reply (EOFError at recv; the coordinator
\* never leaves its loop on a CLIENT_FIRST_CONTACT)
Unreachable ==
    /\ pc[ID] = "awaiting"
    /\ \E kind \in (IF request[ID] = Hello THEN {"socket.error"}
                    ELSE {"socket.error", "EOFError"}) :
          exchanges' = Append(exchanges, Exchange(request[ID], Failure(kind)))
    /\ request' = [request EXCEPT ![ID] = NoMessage]
    /\ pc' = [pc EXCEPT ![ID] = ClientExit("SimulationServer")]
    /\ UNCHANGED << fixedVars, server_response, listener, potential_response, last_points,
                    outcome, fetches, solver, curve, metric, kill_log >>

\* shifts_to_curve (LinearAlgebra.py lines 86-94): a curve of n inner points
\* begins at start_point and ends at end_point, which are abstracted to the
\* least and the greatest configuration; the shifts place the inner points
Curves(n) == {c \in [0..(n + 1) -> Points] : c[0] = Min(Points) /\ c[n + 1] = MaxPoint}

\* CustomBFGS.py lines 57-61 and 103-107, MetricValues.py lines 23-39: a
\* get_metric call begins, on the curve of the current iterate or trial
GetMetric ==
    /\ pc[ID] = "task"
    /\ solver.at = "get_metric"
    /\ curve' \in Curves(local_number_of_nodes)
    /\ metric' = [i \in 0..(local_number_of_nodes + 1) |-> Placeholder]
    /\ solver' = [solver EXCEPT !.at = "dispatch", !.address = 1, !.current_point = 0,
                                !.calls = @ + 1,
                                !.iterate = IF solver.calls = 0 THEN curve' ELSE @]
    /\ UNCHANGED << fixedVars, pc, request, server_response, listener, potential_response,
                    last_points, outcome, fetches, kill_log, exchanges >>

\* mutant: the values are asked for as soon as one evaluator has its points
NextPhase_FetchAtOnce(address, number_of_metric_servers) == "collect"

\* MetricValues.py lines 42 and 83: the second loop begins when the first
\* loop has visited the last address
NextPhase(address, number_of_metric_servers) ==
    IF address = number_of_metric_servers THEN "collect" ELSE "dispatch"

\* MetricValues.py lines 42-78: one pass of the first loop
SendPoints ==
    /\ pc[ID] = "task"
    /\ solver.at = "dispatch"
    /\ LET e == solver.address
           size == ShardSize(e, local_number_of_nodes, METRIC_SERVERS)
       IN  IF solver.current_point + size > local_number_of_nodes + 2
           THEN \* line 54: IndexError, which nothing catches
                /\ solver' = [solver EXCEPT !.at = "IndexError"]
                /\ pc' = [pc EXCEPT ![ID] = "stopped"]
                /\ UNCHANGED << listener, potential_response, last_points, outcome, fetches >>
           ELSE IF listener[e] = "LISTENING"
           THEN /\ HandlePoints(e, PointsFor(curve, solver.current_point, size))
                /\ solver' = [solver EXCEPT
                                !.current_point = @ + size,
                                !.address = IF e = METRIC_SERVERS THEN 1 ELSE e + 1,
                                !.at = NextPhase(e, METRIC_SERVERS)]
                /\ UNCHANGED pc
           ELSE /\ Refused(e, "CLIENT_PROVIDES_POINT")
                /\ solver' = AfterGetMetric(get_metric_returns(FALSE, metric) = NoMetric, solver)
                /\ pc' = AfterSolver(AfterGetMetric(get_metric_returns(FALSE, metric) = NoMetric,
                                                    solver))
    /\ UNCHANGED << fixedVars, request, server_response, curve, metric, kill_log, exchanges >>

\* MetricValues.py lines 83-112: one pass of the second loop; after the last
\* one get_metric returns metric
FetchValues ==
    /\ pc[ID] = "task"
    /\ solver.at = "collect"
    /\ LET e == solver.address
       IN  IF listener[e] = "LISTENING"
           THEN /\ HandleFetch(e)
                /\ metric' = Reassemble(metric, potential_response[e].values)
                /\ solver' = IF e = METRIC_SERVERS THEN AfterGetMetric(FALSE, solver)
                             ELSE [solver EXCEPT !.address = e + 1]
                /\ UNCHANGED pc
           ELSE /\ Refused(e, "CLIENT_ASKS_FOR_VALUES")
                /\ solver' = AfterGetMetric(get_metric_returns(FALSE, metric) = NoMetric, solver)
                /\ pc' = AfterSolver(AfterGetMetric(get_metric_returns(FALSE, metric) = NoMetric,
                                                    solver))
                /\ UNCHANGED metric
    /\ UNCHANGED << fixedVars, request, server_response, curve, kill_log, exchanges >>

\* CustomBFGS.py lines 96-107: dcsrch asks for a trial ('FG'), either the next
\* one of this line search or, after a line search that converged and whose
\* step lines 124-127 made the iterate, the first one of the next line search
Trial ==
    /\ pc[ID] = "task"
    /\ solver.at = "linesearch"
    /\ solver.calls <= MaxTrials
    /\ \E accepted \in (IF solver.calls >= 2 THEN BOOLEAN ELSE {FALSE}) :
          solver' = [solver EXCEPT !.at = "get_metric",
                                   !.iterate = IF accepted THEN curve ELSE @]
    /\ UNCHANGED << fixedVars, pc, request, server_response, potentialVars, curve, metric,
                    kill_log, exchanges >>

\* why the BFGS loop can be left after the get_metric call number calls:
\* before any trial, the gradient is below gtol (line 81) or dcsrch refuses
\* to start (ERROR, lines 116-122); after a trial, the line search converged
\* and the gradient is below gtol (lines 124-132), dcsrch gave up (WARN,
\* lines 121-122) or the trials are used up (lines 118-119)
Exits(calls) ==
    IF calls = 1 THEN {"gtol", "ERROR"}
    ELSE {"CONVERGENCE", "WARN"} \cup (IF calls > MaxTrials THEN {"exhausted"} ELSE {})

\* lines 124-127: only a line search that converged makes its last trial the iterate
IterateAfter(exit, s, c) == IF exit = "CONVERGENCE" THEN c ELSE s.iterate

\* line 142: curve[(number_of_inner_points + 1) / 2], curve being the curve
\* of the last get_metric call (lines 57 and 103)
MidpointOf(c, n) == c[(n + 1) \div 2]

\* CustomBFGS.py line 142 and SimulationClient.py lines 185-205: the solver
\* returns a midpoint and the worker sends the RESULT
SendResult ==
    /\ pc[ID] = "task"
    /\ solver.at = "linesearch"
    /\ \E p \in Results(server_response[ID].node_number) :
          request' = [request EXCEPT ![ID] = ResultFor(server_response[ID], p)]
    /\ pc' = [pc EXCEPT ![ID] = "awaiting"]
    /\ \E exit \in Exits(solver.calls) :
          solver' = [solver EXCEPT
                        !.at = "midpoint",
                        !.exit = exit,
                        !.iterate = IterateAfter(exit, solver, curve),
                        !.midpoint = MidpointOf(curve, local_number_of_nodes)]
    /\ UNCHANGED << fixedVars, server_response, listener, potential_response, last_points,
                    outcome, fetches, curve, metric, kill_log, exchanges >>

\* MetricValues.py lines 128-145: one pass of the loop of shutdown_metric
ShutdownMetric ==
    /\ pc[ID] = "shutdown_metric"
    /\ LET e == Len(kill_log) + 1
       IN  /\ IF listener[e] = "LISTENING" THEN HandleKill(e) ELSE Refused(e, "KILL")
           /\ kill_log' = Append(kill_log, e)
           /\ pc' = [pc EXCEPT ![ID] = IF e = METRIC_SERVERS THEN "stopped" ELSE @]
    /\ UNCHANGED << fixedVars, request, server_response, solver, curve, metric, exchanges >>

\* an evaluator of the pool goes away while the worker is running
Lose(e) ==
    /\ pc[ID] # "stopped"
    /\ listener[e] = "LISTENING"
    /\ listener' = [listener EXCEPT ![e] = "DOWN"]
    /\ UNCHANGED << serverVars, METRIC_SERVERS, metric_parameters, potential_response,
                    last_points, outcome, fetches, clientVars, outputVars >>

InitWorker ==
    /\ InitServer
    /\ local_number_of_nodes \in 0..MaxLocal
    /\ METRIC_SERVERS \in 1..MaxServers
    /\ metric_parameters = MaxEnergy
    /\ InitPotential
    /\ InitClient

NextWorker ==
    \/ FirstContact(ID)
    \/ Poll(ID)
    \/ Answer
    \/ Unreachable
    \/ GetMetric
    \/ SendPoints
    \/ FetchValues
    \/ Trial
    \/ SendResult
    \/ ShutdownMetric
    \/ \E e \in Pool : Lose(e)

SpecWorker == InitWorker /\ [][NextWorker]_vars

\* SimulationServer.py lines 144-147 and 186-189: the coordinator leaves its
\* loop on a RESULT, of this worker (which is then waiting for a reply that
\* is never sent) or of another one, and closes its Listener
Halt ==
    /\ ~FINISHED
    /\ FINISHED' = TRUE
    /\ UNCHANGED << CURVE, client_monitor, client, now, pc, request, server_response,
                    local_number_of_nodes, resets, fresh, updates,
                    potentialVars, clientVars, outputVars >>

\* lines 178-183 of SimulationServer.py: only a coordinator in its loop replies
Replied == ~FINISHED /\ Answer

\* SimulationClient.py lines 199-228 after the Listener is closed: the
\* request of the worker fails
Abandoned == FINISHED /\ Unreachable

\* The worker ID, its pool and a coordinator that halts at some time.  The
\* worker is a sequential process that keeps running: it makes its first
\* contact, its sleep ends, the passes of get_metric and of shutdown_metric
\* are made, the solver returns, and a request to a halted coordinator fails.
NextShutdown ==
    \/ FirstContact(ID)
    \/ Poll(ID)
    \/ Replied
    \/ Unreachable
    \/ Halt
    \/ GetMetric
    \/ SendPoints
    \/ FetchValues
    \/ Trial
    \/ SendResult
    \/ ShutdownMetric
    \/ \E e \in Pool : Lose(e)

SpecShutdown ==
    /\ InitWorker
    /\ [][NextShutdown]_vars
    /\ WF_vars(FirstContact(ID))
    /\ WF_vars(Poll(ID))
    /\ WF_vars(Abandoned)
    /\ WF_vars(GetMetric)
    /\ WF_vars(SendPoints)
    /\ WF_vars(FetchValues)
    /\ WF_vars(Trial \/ SendResult)
    /\ WF_vars(ShutdownMetric)

\* ======================================================================
\* The parameterization of a task: LinearAlgebra.py and the first lines of
\* find_geodesic_midpoint.  A configuration is a vector of integers; a point
\* of the local curve is held as its numerators over number_of_inner_points + 1.
\* ======================================================================
Dimensions == 2..MaxDimension
Vectors(D) == [1..D -> 0..MaxCoordinate]

\* np.subtract
Subtract(a, b) == [i \in 1..Len(a) |-> a[i] - b[i]]

\* np.nonzero(mx)[0]: the indices, from 0, of the nonzero entries
nonzero(v) == {i - 1 : i \in {k \in 1..Len(v) : v[k] # 0}}

\* the elements of a set of integers in increasing order
RECURSIVE Ascending(_)
Ascending(S) == IF S = {} THEN << >> ELSE << Min(S) >> \o Ascending(S \ {Min(S)})

\* LinearAlgebra.py lines 40-41: the i of xrange(1, dimension) with j != i
AxisIndices(j, dimension) == {i \in 1..(dimension - 1) : j # i}

\* LinearAlgebra.py lines 33-64.  The rows stacked under the tangent become,
\* after the transpose, the columns Gram-Schmidt works through in order; the
\* matrix Q has the shape of mx.  A column is named by what it is derived
\* from: the tangent, or the unit vector of an axis.  With nothing stacked mx
\* stays one-dimensional and line 50 cannot unpack its shape.
orthonormal_tangent_basis(tangent, dimension) ==
    LET j == Min(nonzero(tangent))
        axes == Ascending(AxisIndices(j, dimension))
    IN  IF axes = << >>
        THEN [status |-> "ValueError", rows |-> 0, columns |-> << >>]
        ELSE [status |-> "returned", rows |-> dimension,
              columns |-> << << "tangent", j >> >> \o
                          [k \in 1..Len(axes) |-> << "e", axes[k] >>]]

\* CustomBFGS.py lines 46 and 50: np.zeros(number_of_inner_points * codimension)
zeros(n) == [i \in 1..n |-> 0]

\* LinearAlgebra.py lines 100-103 for shifts that are all zero: the product
\* of the matrix with (0, shift) exists when the matrix has codimension + 1
\* columns, and is then the zero vector
Aligned(basis, codimension) == Len(basis.columns) = codimension + 1

\* LinearAlgebra.py lines 87-108 for shifts that are all zero: the points of
\* the line, start_point + i * tangent, each with its shift added
shifts_to_curve(start_point, end_point, shift_points, number_of_inner_points, basis, codimension) ==
    LET passes == Len(shift_points) \div codimension
        line == [i \in 0..(number_of_inner_points + 1) |->
                    [d \in 1..Len(start_point) |->
                        start_point[d] * (number_of_inner_points + 1)
                          + i * Subtract(end_point, start_point)[d]]]
    IN  IF passes > 0 /\ ~Aligned(basis, codimension)
        THEN [status |-> "ValueError", points |-> << >>]
        ELSE [status |-> "returned",
              points |-> [i \in 0..(number_of_inner_points + 1) |->
                            IF i \in 1..passes
                            THEN [d \in 1..Len(start_point) |-> line[i][d] + 0]
                            ELSE line[i]]]

\* SimulationClient.py lines 158-168: the tangent of the task, a positive
\* multiple of right_end_point - left_end_point, and its basis
TangentBasis ==
    /\ left_end_point # << >>
    /\ basis_rotation_matrix = NotComputed
    /\ basis_rotation_matrix' =
          orthonormal_tangent_basis(Subtract(right_end_point, left_end_point),
                                    Len(left_end_point))
    /\ UNCHANGED << serverVars, potentialVars, solver, curve, metric, kill_log, exchanges,
                    outputVars, left_end_point, right_end_point, x0, first_curve, bfgs >>

\* CustomBFGS.py lines 46-58: the initial guess and its curve; not reached
\* when orthonormal_tangent_basis raised
StraightLine ==
    /\ basis_rotation_matrix.status = "returned"
    /\ first_curve = NoPoints
    /\ x0' = zeros(local_number_of_nodes * (Len(left_end_point) - 1))
    /\ first_curve' = shifts_to_curve(left_end_point, right_end_point, x0',
                                      local_number_of_nodes, basis_rotation_matrix,
                                      Len(left_end_point) - 1)
    /\ UNCHANGED << serverVars, potentialVars, solver, curve, metric, kill_log, exchanges,
                    outputVars, left_end_point, right_end_point, basis_rotation_matrix,
                    bfgs >>

\* a task with two different end points of one dimension
InitAlgebra ==
    /\ InitServer
    /\ local_number_of_nodes \in 1..MaxLocal
    /\ METRIC_SERVERS = 1
    /\ metric_parameters = 0
    /\ InitPotential
    /\ InitSolver
    /\ \E D \in Dimensions :
          /\ left_end_point \in Vectors(D)
          /\ right_end_point \in Vectors(D)
    /\ left_end_point # right_end_point
    /\ basis_rotation_matrix = NotComputed
    /\ x0 = << >>
    /\ first_curve = NoPoints
    /\ bfgs = NotEntered

NextAlgebra == TangentBasis \/ StraightLine

SpecAlgebra == InitAlgebra /\ [][NextAlgebra]_vars

\* ======================================================================
\* The loops of find_geodesic_midpoint (CustomBFGS.py lines 60-142).  What
\* get_metric, GradLength and minpack2.dcsrch return is left open.
\* ======================================================================
\* mutant: the while loop is entered whatever the gradient is
WhileCondition_Always(small) == TRUE

\* line 81: while gnorm > gtol
WhileCondition(small) == ~small

\* lines 96 and 118-119: the for loop ends without a break after trial_limit
\* passes, and its else clause leaves the while loop
Exhausted(i) == i = trial_limit

\* the next pass of the while loop, or the return when the condition fails
NextPass(b, small, why) ==
    IF WhileCondition(small)
    THEN [b EXCEPT !.at = "dcsrch", !.searches = @ + 1, !.i = 0]
    ELSE [b EXCEPT !.at = "return", !.exit = why]

\* lines 60-81: the first get_metric call and the first test of the gradient
InitialMetric ==
    /\ bfgs.at = "start"
    /\ \E reached \in BOOLEAN, small \in BOOLEAN :
          bfgs' = IF ~reached THEN [bfgs EXCEPT !.at = "None", !.requests = @ + 1]
                  ELSE NextPass([bfgs EXCEPT !.requests = @ + 1, !.small_at_start = small],
                                small, "gtol")
    /\ UNCHANGED << serverVars, potentialVars, solver, curve, metric, kill_log, exchanges,
                    outputVars, left_end_point, right_end_point, basis_rotation_matrix,
                    x0, first_curve >>

\* lines 96-119: dcsrch asks for a trial ('FG'): one get_metric call
LineSearchTrial ==
    /\ bfgs.at = "dcsrch"
    /\ \E reached \in BOOLEAN :
          bfgs' = IF ~reached
                  THEN [bfgs EXCEPT !.at = "None", !.requests = @ + 1, !.trials = @ + 1,
                                    !.i = @ + 1]
                  ELSE IF Exhausted(bfgs.i + 1)
                  THEN [bfgs EXCEPT !.at = "return", !.exit = "exhausted",
                                    !.requests = @ + 1, !.trials = @ + 1, !.i = @ + 1]
                  ELSE [bfgs EXCEPT !.requests = @ + 1, !.trials = @ + 1, !.i = @ + 1]
    /\ UNCHANGED << serverVars, potentialVars, solver, curve, metric, kill_log, exchanges,
                    outputVars, left_end_point, right_end_point, basis_rotation_matrix,
                    x0, first_curve >>

\* lines 116-132: dcsrch ends the line search.  ERROR can come from the call
\* that starts a line search, WARN and CONVERGENCE only after a trial; after a
\* CONVERGENCE the iterate is updated and the gradient tested again
LineSearchEnds ==
    /\ bfgs.at = "dcsrch"
    /\ \E task \in (IF bfgs.i = 0 THEN {"ERROR"} ELSE {"WARN", "CONVERGENCE"}),
          small \in BOOLEAN :
          /\ (task = "CONVERGENCE" /\ ~small) => bfgs.searches < MaxSearches
          /\ bfgs' = IF task \in {"ERROR", "WARN"}
                     THEN [bfgs EXCEPT !.at = "return", !.exit = task]
                     ELSE NextPass(bfgs, small, "gtol")
    /\ UNCHANGED << serverVars, potentialVars, solver, curve, metric, kill_log, exchanges,
                    outputVars, left_end_point, right_end_point, basis_rotation_matrix,
                    x0, first_curve >>

InitBFGS ==
    /\ InitServer
    /\ local_number_of_nodes \in 1..MaxLocal
    /\ InitIdle

NextBFGS == InitialMetric \/ LineSearchTrial \/ LineSearchEnds

SpecBFGS == InitBFGS /\ [][NextBFGS]_vars

\* ======================================================================
\* Properties
\* ======================================================================

\* worker w holds an outstanding task: TASK sent, RESULT not yet received by
\* the coordinator, not demoted by the timeout scan
Outstanding(w) == Working(w) /\ client_monitor[w].st = "BUSY"

\* C1: neighbour exclusion - no two distinct workers hold outstanding tasks on
\* interior nodes whose indices differ by exactly 1.
C1_NeighbourExclusion ==
    \A v \in Workers : \A w \in Workers :
        (v # w /\ Outstanding(v) /\ Outstanding(w))
            => Abs(client_monitor[v].node - client_monitor[w].node) # 1

\* C2: single assignment - at most one worker holds an outstanding task for
\* any given interior node.
C2_SingleAssignment ==
    \A v \in Workers : \A w \in Workers :
        (v # w /\ Outstanding(v) /\ Outstanding(w))
            => client_monitor[v].node # client_monitor[w].node

\* C3: endpoint immutability - the first and the last point of the curve keep
\* their initial values, and every node index the coordinator dispatches,
\* records or is about to write a RESULT into is an interior index.
C3_EndpointImmutability ==
    /\ get_points(CURVE)[0] = Line(0)
    /\ get_points(CURVE)[LastNode] = Line(LastNode)
    /\ \A w \in Workers :
         /\ (server_response[w].status_code = "SERVER_GIVES_NEW_TASK"
                => server_response[w].node_number \in Interior)
         /\ (client_monitor[w].st = "BUSY" => client_monitor[w].node \in Interior)
         /\ (request[w].status_code = "CLIENT_HAS_MIDPOINT_DATA"
                => request[w].node_number \in Interior)

\* C3 witness: after a sweep reset and a timeout demotion, with an interior
\* node away from its initial position.
C3_Witness ==
    /\ resets >= 1
    /\ \E i \in Interior : get_points(CURVE)[i] # Line(i)
    /\ \E w \in Workers : client_monitor[w] = None /\ Working(w)

\* C4: a RESULT from a worker whose client_monitor entry is None changes no
\* node position, no movement record and no moved/locked flag: the only flag
\* that may change while that request is handled is the FREE -> LOCKED of the
\* node handed out in the reply.
C4_StaleResultDiscarded ==
    [][\A w \in Workers :
          (/\ pc[w] = "awaiting"
           /\ request[w].status_code = "CLIENT_HAS_MIDPOINT_DATA"
           /\ client_monitor[w] = None
           /\ request'[w] # request[w])
          => /\ CURVE'.points = CURVE.points
             /\ CURVE'.last_delta = CURVE.last_delta
             /\ \A i \in Interior :
                   \/ CURVE'.node_state[i] = CURVE.node_state[i]
                   \/ /\ CURVE.node_state[i] = "FREE"
                      /\ CURVE'.node_state[i] = "LOCKED"
                      /\ server_response'[w].node_number = i]_vars

\* C4 witness: the coordinator has just discarded the RESULT of a worker it
\* presumed dead, after another worker's RESULT for a node was accepted.
C4_Witness ==
    /\ client.presumed_dead
    /\ client.closed
    /\ \E i \in Interior : CURVE.node_state[i] = "MOVED"

\* C5: every worker the scan demotes has its node released: the node of a
\* demoted worker that is still working on it is not left LOCKED in the curve
\* unless another worker is recorded as BUSY on it.
C5_TimeoutRelease ==
    \A v \in Workers :
        (Working(v) /\ client_monitor[v] = None)
            => \/ CURVE.node_state[server_response[v].node_number] # "LOCKED"
               \/ \E u \in Workers :
                     /\ client_monitor[u].st = "BUSY"
                     /\ client_monitor[u].node = server_response[v].node_number

\* C6: the coordinator sets FINISHED only while handling a request at which
\* every interior node has been repositioned in the current sweep and the
\* sweep's movement is strictly below the tolerance.
C6_TerminationCondition ==
    FINISHED => /\ \A i \in Interior : CURVE.node_state[i] = "MOVED"
                /\ movement(CURVE) < tolerance
                /\ client.peer \in Workers
                /\ request[client.peer] = NoMessage

\* C6 witness: the coordinator has halted after at least one sweep that did
\* not converge.
C6_Witness == FINISHED /\ resets >= 1

C8_HaltsWithinTwoSweeps == resets <= 1

\* C9: within one sweep each interior node is dispatched at most once, not
\* counting the re-dispatch of a node whose holder timed out.
C9_MonotoneSweep == \A i \in Interior : fresh[i] <= 1

\* C10: every request the coordinator handles while it is not shutting down
\* receives exactly one reply, a TASK or a WAIT, which is the reply its worker
\* receives, and its connection is closed.
C10_OneReplyPerRequest ==
    (client.peer \in Workers /\ ~FINISHED)
        => /\ Len(client.sent) = 1
           /\ client.sent[1] \in {"SERVER_GIVES_NEW_TASK", "SERVER_REQUEST_CALLBACK"}
           /\ server_response[client.peer].status_code = client.sent[1]
           /\ client.closed

\* C10 witness: both kinds of reply have been sent: the last request was
\* answered WAIT while another worker was given a TASK.
C10_Witness ==
    /\ ~FINISHED
    /\ client.peer \in Workers
    /\ client.sent = << "SERVER_REQUEST_CALLBACK" >>
    /\ \E w \in Workers : server_response[w].status_code = "SERVER_GIVES_NEW_TASK"

\* the requests the worker ID has made so far, the one on the wire included
Requested ==
    IF request[ID] = NoMessage THEN exchanges
    ELSE Append(exchanges, Exchange(request[ID], NoReply))

\* the kinds of failure of a connection
Errors == {"socket.error", "EOFError"}

\* C11: the first request of a worker is CLIENT_FIRST_CONTACT; a
\* CLIENT_HAS_MIDPOINT_DATA directly follows a SERVER_GIVES_NEW_TASK the worker
\* received and carries its node_number; a CLIENT_HAS_NO_TASK directly follows
\* a SERVER_REQUEST_CALLBACK the worker received; the worker uses no id but
\* its own.  So every RESULT comes after an answered HELLO of the same id.
C11_MessageOrdering ==
    /\ Len(Requested) >= 1 => Requested[1].status_code = "CLIENT_FIRST_CONTACT"
    /\ \A k \in 2..Len(Requested) :
          /\ Requested[k].status_code = "CLIENT_HAS_MIDPOINT_DATA"
                => /\ Requested[k - 1].reply.status_code = "SERVER_GIVES_NEW_TASK"
                   /\ Requested[k].node_number = Requested[k - 1].reply.node_number
          /\ Requested[k].status_code = "CLIENT_HAS_NO_TASK"
                => Requested[k - 1].reply.status_code = "SERVER_REQUEST_CALLBACK"
          /\ Requested[k].status_code
                \in {"CLIENT_HAS_MIDPOINT_DATA", "CLIENT_HAS_NO_TASK"}
    /\ \A w \in Workers \ {ID} : request[w] = NoMessage

\* C11 witness: HELLO, WAIT, IDLE, TASK for a node other than the first, RESULT.
C11_Witness ==
    /\ Len(exchanges) = 3
    /\ exchanges[2].status_code = "CLIENT_HAS_NO_TASK"
    /\ exchanges[3].status_code = "CLIENT_HAS_MIDPOINT_DATA"
    /\ exchanges[3].node_number > Min(Interior)

\* the last request of the worker ID did not reach the coordinator
CoordinatorLost ==
    /\ Len(exchanges) >= 1
    /\ exchanges[Len(exchanges)].reply.status_code \in Errors

C13_EvaluatorFailure ==
    (pc[ID] = "stopped" /\ solver.failed_at > 0)
        => /\ Len(kill_log) = METRIC_SERVERS
           /\ \A e \in Pool : outcome[e].status_code = "KILL"

\* C14: once a get_metric call of the solver has returned None, the solver
\* has returned None without beginning another get_metric call, and the
\* worker has stopped without a RESULT: its last request is the one the TASK
\* answered.
C14_SolverAbort ==
    solver.failed_at > 0
        => /\ solver.at = "None"
           /\ solver.calls = solver.failed_at
           /\ pc[ID] = "stopped"
           /\ request[ID] = NoMessage
           /\ exchanges[Len(exchanges)].reply.status_code = "SERVER_GIVES_NEW_TASK"

\* C14 witness: the get_metric call of a line-search trial failed while it
\* collected the values.
C14_Witness ==
    /\ solver.failed_at > 1
    /\ \E e \in Pool : outcome[e] = SocketError("CLIENT_ASKS_FOR_VALUES")

\* the indices the first e evaluators of the pool were sent last, in order
RECURSIVE IndicesSent(_)
IndicesSent(e) ==
    IF e = 0 THEN << >>
    ELSE IndicesSent(e - 1) \o [j \in 1..Len(last_points[e]) |-> last_points[e][j][2]]

\* C19: when the first loop of get_metric is through, the indices sent to
\* the evaluators 1..K, taken together in the order of the evaluators, are
\* 0, 1, ..., L+1, each with its point of the curve; the sizes of two ranges
\* differ by at most one and an earlier range is never the smaller one.
C19_ShardPartition ==
    solver.at = "collect"
        => /\ IndicesSent(METRIC_SERVERS) = [i \in 1..(local_number_of_nodes + 2) |-> i - 1]
           /\ \A e \in Pool : \A j \in 1..Len(last_points[e]) :
                 last_points[e][j][1] = curve[last_points[e][j][2]]
           /\ \A d \in Pool : \A e \in Pool :
                 d < e => Len(last_points[d]) - Len(last_points[e]) \in {0, 1}

\* C19 witness: four points for three evaluators, two of them for the first.
C19_Witness ==
    /\ solver.at = "collect"
    /\ METRIC_SERVERS = 3
    /\ Len(last_points[1]) = 2
    /\ Len(last_points[3]) = 1

\* C20: the list a get_metric call returns has the entries 0..L+1, and entry
\* i is the sample of curve[i], not the placeholder.
C20_ShardReassembly ==
    solver.at = "linesearch"
        => /\ DOMAIN metric = 0..(local_number_of_nodes + 1)
           /\ \A i \in DOMAIN metric :
                 /\ metric[i] = Sample(metric_parameters, curve[i])
                 /\ metric[i] # Placeholder

\* C20 witness: the second get_metric call of a task has returned, on a curve
\* of four points, two of them different inner points, from three evaluators.
C20_Witness ==
    /\ solver.at = "linesearch"
    /\ solver.calls = 2
    /\ METRIC_SERVERS = 3
    /\ local_number_of_nodes = 2
    /\ curve[1] # curve[2]

\* C15: the values an evaluator sends on a CLIENT_ASKS_FOR_VALUES have one
\* entry per point of the last CLIENT_PROVIDES_POINT it handled, in the order
\* of that request, each the sample of its point with the index that came with
\* the point.
C15_FetchCorrespondence ==
    \A e \in Addresses :
        outcome[e].kind = "VALUES"
            => /\ Len(outcome[e].values) = Len(last_points[e])
               /\ \A j \in 1..Len(last_points[e]) :
                     /\ outcome[e].values[j][1] = Sample(metric_parameters, last_points[e][j][1])
                     /\ outcome[e].values[j][2] = last_points[e][j][2]

\* C15 witness: the values of a batch of two different points whose indices
\* came in decreasing order have been sent.
C15_Witness ==
    \E e \in Addresses :
        /\ outcome[e].kind = "VALUES"
        /\ Len(last_points[e]) = 2
        /\ last_points[e][1][1] # last_points[e][2][1]
        /\ last_points[e][1][2] > last_points[e][2][2]

\* C16: once an evaluator has answered a CLIENT_ASKS_FOR_VALUES its buffer is
\* empty, and it answers at most one CLIENT_ASKS_FOR_VALUES per
\* CLIENT_PROVIDES_POINT.
C16_FetchClearsBuffer ==
    \A e \in Addresses :
        /\ fetches[e] >= 1 => potential_response[e].values = << >>
        /\ fetches[e] <= 1

\* C17: an evaluator that has received KILL has closed its listener, and an
\* evaluator whose listener is closed stays closed, keeps its buffer untouched
\* and answers no request: every later connection ends in socket.error.
C17_KillStops ==
    [][\A e \in Addresses :
          /\ (outcome'[e] = Unanswered("KILL") => listener'[e] = "CLOSED")
          /\ (listener[e] = "CLOSED"
                => /\ listener'[e] = "CLOSED"
                   /\ potential_response'[e] = potential_response[e]
                   /\ last_points'[e] = last_points[e]
                   /\ fetches'[e] = fetches[e]
                   /\ outcome'[e] # outcome[e] => outcome'[e].kind = "socket.error")]_vars

\* C17 witness: an evaluator that was killed while it held a batch nobody had
\* fetched has refused a CLIENT_ASKS_FOR_VALUES.
C17_Witness ==
    \E e \in Addresses :
        /\ listener[e] = "CLOSED"
        /\ potential_response[e].values # << >>
        /\ fetches[e] = 0
        /\ outcome[e] = SocketError("CLIENT_ASKS_FOR_VALUES")

\* C18: no evaluator raises ValueError, and the scalar of every sample it has
\* computed is strictly positive and is the square root (rounded down) of
\* E - U(p) where that exceeds small_number and of small_number elsewhere.
C18_MetricFloor ==
    \A e \in Addresses :
        /\ listener[e] # "ValueError"
        /\ \A j \in 1..Len(potential_response[e].values) :
              LET a == potential_response[e].values[j][1][1]
                  d == metric_parameters - get_potential_energy(last_points[e][j][1])
                  x == IF d > small_number THEN d ELSE small_number
              IN  /\ a > 0
                  /\ a * a <= x
                  /\ x < (a + 1) * (a + 1)

\* C18 witness: a batch with a point above the energy (E - U(p) < 0) and a
\* point below it has been evaluated.
C18_Witness ==
    \E e \in Addresses :
        /\ Len(potential_response[e].values) = 2
        /\ metric_parameters - get_potential_energy(last_points[e][1][1]) < 0
        /\ metric_parameters - get_potential_energy(last_points[e][2][1]) > small_number

C22_MidpointIndex ==
    \A w \in Workers :
        request[w].status_code = "CLIENT_HAS_MIDPOINT_DATA"
            => request[w].new_node_position =
                  StraightPoint(server_response[w].left_end_point,
                                server_response[w].right_end_point,
                                local_number_of_nodes,
                                (local_number_of_nodes + 2) \div 2)

\* C23: when the BFGS loop is left because the line search ended with ERROR
\* or WARN or used up its trials, the point returned is the midpoint of the
\* curve of the iterate, and the worker sends it as a RESULT.
C23_LineSearchFailure ==
    (solver.at = "midpoint" /\ solver.exit \in {"ERROR", "WARN", "exhausted"})
        => /\ solver.midpoint = solver.iterate[(local_number_of_nodes + 1) \div 2]
           /\ Requested[Len(Requested)].status_code = "CLIENT_HAS_MIDPOINT_DATA"

\* C24: as long as FINISHED is false no file has been written, the output
\* filename is the one of the constructor and get_curve has returned nothing
\* but None; every file written holds the points of the final curve.
C24_OutputAfterTermination ==
    /\ ~FINISHED => /\ files = {}
                    /\ OUTPUT_FILENAME = output_filename
                    /\ returned \in {NotCalled, NoCurve}
    /\ \A f \in files : f.points = get_points(CURVE)

\* C24 witness: save_simulation was called before the run had finished and
\* again afterwards, under a name set after the run.
C24_Witness ==
    /\ FINISHED
    /\ "save_simulation" \in warnings
    /\ \E f \in files : f.file[1] # output_filename
    /\ returned = CURVE

\* C25: when the coordinator handles a request of unknown kind it closes the
\* connection, sends no TASK on it, records no assignment for its sender and
\* locks no node; an evaluator that gets a request of unknown kind keeps its
\* listener, its buffer and its counters as they are.
C25_InvalidMessage ==
    [][/\ \A w \in Workers :
            (request[w] = Invalid /\ request'[w] = NoMessage)
            => /\ client'.closed
               /\ client'.sent # << "SERVER_GIVES_NEW_TASK" >>
               /\ client_monitor'[w] = client_monitor[w]
               /\ \A i \in Interior :
                     CURVE'.node_state[i] = "LOCKED" => CURVE.node_state[i] = "LOCKED"
       /\ \A e \in Addresses :
            (outcome'[e] = Ignored /\ outcome[e] # Ignored)
            => /\ listener'[e] = listener[e]
               /\ potential_response'[e] = potential_response[e]
               /\ last_points'[e] = last_points[e]
               /\ fetches'[e] = fetches[e]]_vars

\* the request of worker w is handled in this step and answered
Answered(w) ==
    /\ request[w] # NoMessage
    /\ request'[w] = NoMessage
    /\ client'.sent # << >>

\* the Curve c with the LOCKED nodes of the workers in late set FREE again
Released(c, mon, late) ==
    [c EXCEPT !.node_state =
        [i \in Interior |->
            IF c.node_state[i] = "LOCKED" /\ \E v \in late : mon[v].node = i
            THEN "FREE" ELSE c.node_state[i]]]

\* the Curve the dispatch step of the handler of w's request selects from:
\* the RESULT is written, a complete sweep is reset and the nodes of the
\* workers found expired are released
BeforeDispatch(w) ==
    Released(AfterSweepCheck(AfterResult(CURVE, client_monitor, w, request[w])),
             client_monitor, Expired(AfterHello(client_monitor, w, request[w])))

\* C26: on every request that is answered, the node of the TASK is the
\* lowest-index interior node that is FREE and has no LOCKED neighbour, and
\* the reply is a WAIT exactly when there is no such node.
C26_DispatchSelection ==
    [][\A w \in Workers :
          Answered(w)
          => /\ client'.sent = << "SERVER_GIVES_NEW_TASK" >>
                => /\ Dispatchable(BeforeDispatch(w)) # {}
                   /\ server_response'[w].node_number = Min(Dispatchable(BeforeDispatch(w)))
             /\ client'.sent = << "SERVER_REQUEST_CALLBACK" >>
                <=> Dispatchable(BeforeDispatch(w)) = {}]_vars

\* C27: every TASK for node i carries as left and right end point the
\* positions the coordinator holds for the nodes i-1 and i+1 when it sends
\* the TASK, and after sending it the record of the requesting worker is
\* exactly (time of dispatch, i), whatever its record was before.
C27_TaskContentAndRecord ==
    [][\A w \in Workers :
          (Answered(w) /\ client'.sent = << "SERVER_GIVES_NEW_TASK" >>)
          => LET i == server_response'[w].node_number
             IN  /\ i \in Interior
                 /\ server_response'[w].left_end_point = get_points(CURVE')[i - 1]
                 /\ server_response'[w].right_end_point = get_points(CURVE')[i + 1]
                 /\ client_monitor'[w] = Busy(now, i)]_vars

\* a worker that alone has moved a node earlier, and so had a record, has
\* just been sent a TASK at a later time and its record is the new one
C27_Witness ==
    \E w \in Workers :
        /\ client.peer = w
        /\ client.sent = << "SERVER_GIVES_NEW_TASK" >>
        /\ pc[w] = "task"
        /\ now > 0
        /\ client_monitor[w] = Busy(now, server_response[w].node_number)
        /\ CURVE.node_state[server_response[w].node_number] = "LOCKED"
        /\ \E i \in Interior : CURVE.node_state[i] = "MOVED"
        /\ \A v \in Workers \ {w} : pc[v] = "start"

\* the handler of w's request finds, after writing a RESULT, every interior
\* node repositioned and the movement not below the tolerance
SweepToReset(w) ==
    /\ request[w] # NoMessage
    /\ request'[w] = NoMessage
    /\ all_nodes_moved(AfterResult(CURVE, client_monitor, w, request[w]))
    /\ movement(AfterResult(CURVE, client_monitor, w, request[w])) >= tolerance

\* C28: when the handler of a request finds every interior node repositioned
\* and the movement not below the tolerance, the coordinator does not halt,
\* no interior node is MOVED afterwards (all are FREE but a node locked for
\* the reply), a new sweep is counted, and the same request is answered with
\* one TASK or one WAIT.
C28_SweepReset ==
    [][\A w \in Workers :
          SweepToReset(w)
          => /\ ~FINISHED'
             /\ client'.peer = w
             /\ client'.sent \in {<< "SERVER_GIVES_NEW_TASK" >>, << "SERVER_REQUEST_CALLBACK" >>}
             /\ \A i \in Interior :
                   \/ CURVE'.node_state[i] = "FREE"
                   \/ /\ CURVE'.node_state[i] = "LOCKED"
                      /\ client'.sent = << "SERVER_GIVES_NEW_TASK" >>
                      /\ server_response'[w].node_number = i
             /\ resets < MaxSweeps => resets' = resets + 1]_vars

\* a sweep has been reset while the request was answered with a TASK for a
\* node of the new sweep: that node is the only one not FREE
C28_Witness ==
    /\ resets >= 1
    /\ ~FINISHED
    /\ client.sent = << "SERVER_GIVES_NEW_TASK" >>
    /\ movement(CURVE) >= tolerance
    /\ CURVE.node_state[server_response[client.peer].node_number] = "LOCKED"
    /\ \A i \in Interior \ {server_response[client.peer].node_number} :
          CURVE.node_state[i] = "FREE"

\* C29: when the handler of a request finds the sweep complete, every interior
\* node has had exactly one RESULT written into it in this sweep, so that the
\* movement tested against the tolerance, the sum of the nodes' last
\* displacements, counts one displacement per node, none twice and none left out.
C29_MovementAccounting ==
    [][\A w \in Workers :
          (/\ request[w] # NoMessage
           /\ request'[w] = NoMessage
           /\ all_nodes_moved(AfterResult(CURVE, client_monitor, w, request[w])))
          => /\ \A i \in Interior :
                   AfterWrite(updates, client_monitor, w, request[w])[i] = 1
             /\ movement(AfterResult(CURVE, client_monitor, w, request[w]))
                   = SumTo([i \in Interior |->
                              AfterResult(CURVE, client_monitor, w, request[w]).last_delta[i]],
                           LastNode - 1)]_vars

\* C30: handling a CLIENT_FIRST_CONTACT or a CLIENT_HAS_NO_TASK request
\* changes the position of no node; handling a RESULT that is accepted
\* changes at most the position of the node the RESULT names, to the position
\* the RESULT carries, and handling a discarded RESULT changes none.
C30_CurveFrame ==
    [][\A w \in Workers :
          (request[w] # NoMessage /\ request'[w] = NoMessage)
          => IF request[w].status_code = "CLIENT_HAS_MIDPOINT_DATA" /\ client_monitor[w] # None
             THEN /\ get_points(CURVE')[request[w].node_number] = request[w].new_node_position
                  /\ \A i \in Nodes \ {request[w].node_number} :
                        get_points(CURVE')[i] = get_points(CURVE)[i]
             ELSE get_points(CURVE') = get_points(CURVE)]_vars

\* an accepted RESULT has moved an interior node off the straight line while
\* both of its neighbours are where they were at construction, and the last
\* request was answered with a WAIT
C30_Witness ==
    \E i \in Interior :
        /\ get_points(CURVE)[i] # Line(i)
        /\ get_points(CURVE)[i - 1] = Line(i - 1)
        /\ get_points(CURVE)[i + 1] = Line(i + 1)
        /\ client.peer \in Workers
        /\ client.sent = << "SERVER_REQUEST_CALLBACK" >>

\* C31: within one get_metric call the points are sent to every evaluator of
\* the pool before any evaluator is asked for values: a CLIENT_PROVIDES_POINT
\* reaches address e only in the first loop at address e, after each earlier
\* address got its points and no request for values; a CLIENT_ASKS_FOR_VALUES
\* reaches address e only in the second loop at address e, when every earlier
\* address has been asked once and every later one holds its points unasked;
\* and when the call succeeds every evaluator has been asked exactly once
\* since its points arrived.
C31_TwoPhaseOrdering ==
    [][/\ \A e \in Pool :
            /\ (outcome'[e] # outcome[e] /\ outcome'[e].status_code = "CLIENT_PROVIDES_POINT")
               => /\ solver.at = "dispatch"
                  /\ solver.address = e
                  /\ \A d \in Pool :
                        d < e => outcome[d] = Unanswered("CLIENT_PROVIDES_POINT") /\ fetches[d] = 0
            /\ (outcome'[e] # outcome[e] /\ outcome'[e].status_code = "CLIENT_ASKS_FOR_VALUES")
               => /\ solver.at = "collect"
                  /\ solver.address = e
                  /\ \A d \in Pool :
                        IF d < e THEN outcome[d].kind = "VALUES" /\ fetches[d] = 1
                        ELSE outcome[d] = Unanswered("CLIENT_PROVIDES_POINT") /\ fetches[d] = 0
       /\ (solver.at = "collect" /\ solver'.at = "linesearch")
            => \A e \in Pool : outcome'[e].kind = "VALUES" /\ fetches'[e] = 1]_vars

\* the second get_metric call of a task has succeeded on a pool of more than
\* one evaluator
C31_Witness ==
    /\ pc[ID] = "task"
    /\ solver.at = "linesearch"
    /\ solver.calls >= 2
    /\ METRIC_SERVERS >= 2
    /\ \A e \in Pool : outcome[e].kind = "VALUES" /\ fetches[e] = 1

\* C32: on a CLIENT_PROVIDES_POINT the evaluator has closed the connection,
\* with nothing sent on it, by the time it computes the values: receiving the
\* points leaves server_response as it was, and while the values are computed
\* the connection is closed; values reach a peer only as the answer to a
\* CLIENT_ASKS_FOR_VALUES on a later connection.
C32_CloseBeforeCompute ==
    [][\A e \in Pool :
          /\ listener'[e] = "COMPUTING"
             => /\ outcome'[e] = Unanswered("CLIENT_PROVIDES_POINT")
                /\ potential_response'[e] = potential_response[e]
          /\ outcome'[e].values # << >>
             => /\ outcome'[e].status_code = "CLIENT_ASKS_FOR_VALUES"
                /\ listener[e] = "LISTENING"
                /\ outcome'[e].values = potential_response[e].values]_vars

\* the values of a batch that was received and then computed have been
\* delivered on a connection that asked for them
C32_Witness ==
    \E e \in Pool :
        /\ listener[e] = "LISTENING"
        /\ last_points[e] # << >>
        /\ potential_response[e] = ProvidesValues(Evaluate(metric_parameters, last_points[e]))
        /\ outcome[e] = Received(potential_response[e])

\* C33: for every nonzero tangent of dimension D, with j the index of its
\* first nonzero component, orthonormal_tangent_basis returns a matrix of D
\* rows and D columns whose first column is derived from the tangent and whose
\* other D-1 columns are derived from exactly the unit vectors e_i with i # j.
C33_ReducedBasisShape ==
    basis_rotation_matrix # NotComputed
    => LET D == Len(left_end_point)
           j == Min(nonzero(Subtract(right_end_point, left_end_point)))
           columns == basis_rotation_matrix.columns
       IN  /\ basis_rotation_matrix.status = "returned"
           /\ basis_rotation_matrix.rows = D
           /\ Len(columns) = D
           /\ columns[1] = << "tangent", j >>
           /\ {columns[k] : k \in 2..Len(columns)} = {<< "e", i >> : i \in (0..(D - 1)) \ {j}}

\* C34: with all shifts zero, the first curve of a task has exactly L + 2
\* points, point k being left + k * (right - left) / (L + 1), and the initial
\* parameter vector is the zero vector of length L * (D - 1).
C34_StraightLineInitialization ==
    first_curve # NoPoints
    => LET D == Len(left_end_point)
           L == local_number_of_nodes
       IN  /\ x0 = [i \in 1..(L * (D - 1)) |-> 0]
           /\ first_curve.status = "returned"
           /\ DOMAIN first_curve.points = 0..(L + 1)
           /\ \A k \in 0..(L + 1) : \A d \in 1..D :
                 first_curve.points[k][d]
                    = left_end_point[d] * (L + 1) + k * (right_end_point[d] - left_end_point[d])

\* C35: a pass of the BFGS loop makes at most 30 line-search trials and every
\* trial makes exactly one get_metric call, so that the calls made are the
\* first one and one per trial; the loop has ended when and only when the
\* gradient was found within gtol, the line search reported ERROR or WARN, or
\* 30 trials passed in one line search; and when the first gradient is within
\* gtol, one get_metric call is made in all.
C35_SolverLoopBounds ==
    /\ bfgs.i <= trial_limit
    /\ bfgs.at # "start" => bfgs.requests = 1 + bfgs.trials
    /\ bfgs.at = "dcsrch" => bfgs.i < trial_limit /\ bfgs.exit = "NONE"
    /\ bfgs.at = "return" => bfgs.exit \in {"gtol", "ERROR", "WARN", "exhausted"}
    /\ bfgs.exit = "exhausted" <=> (bfgs.at = "return" /\ bfgs.i = trial_limit)
    /\ (bfgs.small_at_start /\ bfgs.at # "start")
         => bfgs.at = "return" /\ bfgs.exit = "gtol" /\ bfgs.requests = 1

\* the second pass of the BFGS loop has used up its 30 trials
C35_Witness ==
    /\ bfgs.at = "return"
    /\ bfgs.exit = "exhausted"
    /\ bfgs.searches = 2
    /\ bfgs.i = trial_limit
    /\ bfgs.requests > trial_limit + 1

\* C36: a node whose RESULT was accepted in the current sweep is not handed
\* out again in that sweep: the node of every TASK is, once the request's own
\* RESULT is written and a complete sweep is reset, not MOVED.
C36_TimeoutOnlyOutstanding ==
    [][\A w \in Workers :
          (Answered(w) /\ client'.sent = << "SERVER_GIVES_NEW_TASK" >>)
          => AfterSweepCheck(AfterResult(CURVE, client_monitor, w, request[w]))
                .node_state[server_response'[w].node_number] # "MOVED"]_vars

\* C37: whenever the coordinator accepts a RESULT for node i, the positions it
\* holds for the nodes i-1 and i+1 are the left and the right end point of the
\* TASK that the RESULT answers.
C37_NeighbourConsistency ==
    [][\A w \in Workers :
          (/\ request[w].status_code = "CLIENT_HAS_MIDPOINT_DATA"
           /\ request'[w] = NoMessage
           /\ client_monitor[w] # None)
          => /\ server_response[w].node_number = request[w].node_number
             /\ get_points(CURVE)[request[w].node_number - 1] = server_response[w].left_end_point
             /\ get_points(CURVE)[request[w].node_number + 1] = server_response[w].right_end_point]_vars

\* C38: in every state of the coordinator, every interior node that is LOCKED
\* is the node of the record of some worker recorded as BUSY.
C38_NoOrphanedLocks ==
    \A i \in Interior :
        CURVE.node_state[i] = "LOCKED"
            => \E w \in Workers : client_monitor[w].st = "BUSY" /\ client_monitor[w].node = i

\* the handler of a request finds every interior node repositioned
SweepCompletes ==
    \E w \in Workers :
        /\ request[w] # NoMessage
        /\ request'[w] = NoMessage
        /\ all_nodes_moved(AfterResult(CURVE, client_monitor, w, request[w]))

\* C39: when every worker returns a RESULT for each TASK and keeps polling,
\* every sweep completes: until the coordinator halts, again and again the
\* handler of some request finds every interior node repositioned.
C39_SweepProgress == <>FINISHED \/ []<><<SweepCompletes>>_vars

\* the worker ID has stopped and no evaluator of its pool is listening any more
ShutDown ==
    /\ pc[ID] = "stopped"
    /\ \A e \in Pool : listener[e] # "LISTENING"

\* C40: once the coordinator has halted, a worker that is still running,
\* whether it was computing, sleeping or waiting for a reply, eventually
\* sends KILL to the evaluators of its pool and stops, so that in the end the
\* worker has stopped and every evaluator of the pool that could be reached
\* has exited.
C40_ShutdownAfterConvergence == (FINISHED /\ pc[ID] # "stopped") ~> ShutDown

====
